---- MODULE Spec2Model ----
(***************************************************************************)
(* Bigram histogram map-reduce pipeline (map_reduce_bigrams.py).           *)
(*                                                                         *)
(* Strings are sequences of one-character strings.  A line item of the     *)
(* corpus is [isStr |-> BOOLEAN, chars |-> <<...>>]; isStr = FALSE stands  *)
(* for an item that is not a Python str (an int, None, ...).               *)
(*                                                                         *)
(* Three specifications:                                                   *)
(*   Spec         the pipeline of main(), executed by take_all()           *)
(*   SpecExtract  extract_bigrams applied to one item                      *)
(*   SpecMerge    the aggregators' merge applied to partial accumulators   *)
(***************************************************************************)
EXTENDS Integers, Sequences, FiniteSets, Bags, TLC

VARIABLES
    text_lines,   \* the corpus handed to ray.data.from_items
    pc,           \* position of the run inside main()
    todo,         \* indices of rows flat_map has not processed yet
    pending,      \* bag of rows the current stage has not consumed yet
    partials,     \* sequence of per-shard partial aggregation states
    counted,      \* dataset after groupby("bigram").aggregate(Sum)
    groups,       \* dataset after groupby("count").aggregate(list aggregator)
    mapped,       \* dataset after the final map (projector)
    results,      \* {} while unassigned, {bag of rows} once take_all returned
    prev_results, \* results of the previous run of main() on the same corpus
    reran,        \* TRUE once an earlier run of main() on the corpus has ended
    x_item,       \* SpecExtract: argument of extract_bigrams
    x_out,        \* SpecExtract: what the call produced
    x_pc,         \* SpecExtract: "call" | "returned" | "raised" | "idle"
    m_kind,       \* SpecMerge: "Sum" | "CollectList" | "idle"
    m_acc,        \* SpecMerge: the three partial accumulators <<a, b, c>>
    m_res         \* SpecMerge: the merge results, once computed

vars == <<text_lines, pc, todo, pending, partials, counted, groups, mapped,
          results, prev_results, reran, x_item, x_out, x_pc, m_kind, m_acc, m_res>>

pipeVars == <<text_lines, pc, todo, pending, partials, counted, groups, mapped,
              results, prev_results, reran>>
extractVars == <<x_item, x_out, x_pc>>
mergeVars == <<m_kind, m_acc, m_res>>

----------------------------------------------------------------------------
(* Bounds *)

MaxLines == 3      \* longest corpus
NumShards == 2     \* shards a group-by stage splits its rows into
MaxLineLen == 5    \* longest line given to extract_bigrams in SpecExtract
MaxAccLen == 2     \* longest partial list accumulator in SpecMerge
MaxAccSum == 2     \* largest partial sum accumulator in SpecMerge

----------------------------------------------------------------------------
(* Strings *)

Chars == {"a", "A", "b", " ", ","}

Str(chars) == [isStr |-> TRUE, chars |-> chars]

NotAStr == [isStr |-> FALSE, chars |-> <<>>]

\* str.lower(), character by character
lower_char(c) == IF c = "A" THEN "a" ELSE IF c = "B" THEN "b" ELSE c

str_lower(s) == [i \in 1..Len(s) |-> lower_char(s[i])]

\* the character class \w
IsWordChar(c) == c \in {"a", "b", "A", "B", "_"}

RECURSIVE findall_scan(_, _, _, _)
findall_scan(s, i, cur, toks) ==
    IF i > Len(s)
    THEN IF cur = <<>> THEN toks ELSE Append(toks, cur)
    ELSE IF IsWordChar(s[i])
         THEN findall_scan(s, i + 1, Append(cur, s[i]), toks)
         ELSE findall_scan(s, i + 1, <<>>,
                           IF cur = <<>> THEN toks ELSE Append(toks, cur))

\* re.findall(r"\w+", s): the maximal runs of word characters, left to right
re_findall_w(s) == findall_scan(s, 1, <<>>, <<>>)

\* f"{w1} {w2}"
fmt_bigram(w1, w2) == w1 \o <<" ">> \o w2

----------------------------------------------------------------------------
(* extract_bigrams *)

\* the generator's for loop; i is the 0-based loop variable
RECURSIVE bigram_loop(_, _, _)
bigram_loop(tokens, i, out) ==
    IF i >= Len(tokens) - 1
    THEN out
    ELSE bigram_loop(tokens, i + 1,
             Append(out, [bigram |-> fmt_bigram(tokens[i + 1], tokens[i + 2]),
                          count |-> 1]))

\* variant with a slip: range(len(tokens)) with the successor index wrapping around
RECURSIVE bigram_loop_wrap(_, _, _)
bigram_loop_wrap(tokens, i, out) ==
    IF i >= Len(tokens)
    THEN out
    ELSE bigram_loop_wrap(tokens, i + 1,
             Append(out, [bigram |-> fmt_bigram(tokens[i + 1],
                                         tokens[((i + 1) % Len(tokens)) + 1]),
                          count |-> 1]))

extract_bigrams_wrap(item) ==
    IF ~item.item.isStr
    THEN [raised |-> TRUE, rows |-> <<>>]
    ELSE [raised |-> FALSE,
          rows |-> bigram_loop_wrap(re_findall_w(str_lower(item.item.chars)), 0, <<>>)]

\* variant with a slip: an item that is not a string is skipped instead of raising
extract_bigrams_skip(item) ==
    IF ~item.item.isStr
    THEN [raised |-> FALSE, rows |-> <<>>]
    ELSE [raised |-> FALSE,
          rows |-> bigram_loop(re_findall_w(str_lower(item.item.chars)), 0, <<>>)]

\* line.lower() raises AttributeError when line is not a str; otherwise the
\* rows are the records the generator yields, in order
extract_bigrams(item) ==
    IF ~item.item.isStr
    THEN [raised |-> TRUE, rows |-> <<>>]
    ELSE [raised |-> FALSE,
          rows |-> bigram_loop(re_findall_w(str_lower(item.item.chars)), 0, <<>>)]

----------------------------------------------------------------------------
(* Aggregators: (init, accumulate_row, merge, finalize) *)

\* make_list_aggregator
list_init(key) == <<>>

\* variant with a slip: the second partial list is dropped
list_merge_drop(accum1, accum2) == accum1

list_merge(accum1, accum2) == accum1 \o accum2

\* variant with a slip: the whole row is not indexed and the value is appended twice
list_accumulate_row_twice(input_key, acc, row) ==
    acc \o <<row[input_key], row[input_key]>>

list_accumulate_row(input_key, acc, row) == acc \o <<row[input_key]>>

list_finalize(acc) == acc

\* Sum("count", alias_name="count")
sum_init(key) == 0

sum_merge(a1, a2) == a1 + a2

sum_accumulate_row(on, acc, row) == acc + row[on]

sum_finalize(acc) == acc

AggInit(agg, key) ==
    IF agg = "Sum" THEN sum_init(key) ELSE list_init(key)

AggMerge(agg, a1, a2) ==
    IF agg = "Sum" THEN sum_merge(a1, a2) ELSE list_merge(a1, a2)

AggAccumulate(agg, acc, row) ==
    IF agg = "Sum" THEN sum_accumulate_row("count", acc, row)
                   ELSE list_accumulate_row("bigram", acc, row)

AggFinalize(agg, acc) ==
    IF agg = "Sum" THEN sum_finalize(acc) ELSE list_finalize(acc)

----------------------------------------------------------------------------
(* The pipeline of main(), as executed by take_all() *)

\* ray.data.from_items: every item becomes the row {"item": item}
from_items(items) == [i \in 1..Len(items) |-> [item |-> items[i]]]

SeqToBag(s) ==
    [e \in {s[i] : i \in 1..Len(s)} |-> Cardinality({i \in 1..Len(s) : s[i] = e})]

IsEmptyBag(B) == BagToSet(B) = {}

\* the grouping key and the aggregator of the two groupby(...).aggregate(...)
KeyOf(stage) == IF stage = "groupby_bigram" THEN "bigram" ELSE "count"

AggOf(stage) == IF stage = "groupby_bigram" THEN "Sum" ELSE "CollectList"

\* a stage starts without shards; a shard starts with no group, and each
\* group is seeded on its first row
FreshShards == <<>>

\* the partial state left when all shards are merged; none without rows
MergedPart(ps) == IF Len(ps) = 0 THEN <<>> ELSE ps[1]

\* one row accumulated into a shard's partial state for the row's group
AccumulateInto(agg, part, key, row) ==
    IF key \in DOMAIN part
    THEN [part EXCEPT ![key] = AggAccumulate(agg, part[key], row)]
    ELSE part @@ (key :> AggAccumulate(agg, AggInit(agg, key), row))

\* two shards' partial states combined, group by group
MergeParts(agg, p, q) ==
    [k \in (DOMAIN p) \cup (DOMAIN q) |->
        IF k \in DOMAIN p /\ k \in DOMAIN q THEN AggMerge(agg, p[k], q[k])
        ELSE IF k \in DOMAIN p THEN p[k] ELSE q[k]]

\* the sequence ps with ps[j] removed and ps[i] replaced by v
RemoveAndPut(ps, i, j, v) ==
    LET put == [ps EXCEPT ![i] = v]
    IN  [n \in 1..(Len(ps) - 1) |-> IF n < j THEN put[n] ELSE put[n + 1]]

\* variant with a slip: len(row), the number of fields, instead of len(row["bigrams"])
ProjectRow_fields(row) == [count |-> row.count, num_bigrams |-> Cardinality(DOMAIN row)]

\* lambda row: {"count": row["count"], "num_bigrams": len(row["bigrams"])}
ProjectRow(row) == [count |-> row.count, num_bigrams |-> Len(row.bigrams)]

\* Lines the corpus is drawn from:
\*   "a B a"  "A b"  "a,a a"  "b"  ""  and an item that is not a string
LinePool ==
    { Str(<<"a", " ", "B", " ", "a">>),
      Str(<<"A", " ", "b">>),
      Str(<<"a", ",", "a", " ", "a">>),
      Str(<<"b">>),
      Str(<<>>),
      NotAStr }

Corpora == UNION { [1..n -> LinePool] : n \in 0..MaxLines }

ExtractIdle == x_item = [item |-> Str(<<>>)] /\ x_out = <<>> /\ x_pc = "idle"

MergeIdle == m_kind = "idle" /\ m_acc = <<>> /\ m_res = <<>>

StartRun(lines) ==
    /\ text_lines' = lines
    /\ pc' = "flat_map"
    /\ todo' = 1..Len(lines)
    /\ pending' = EmptyBag
    /\ partials' = <<>>
    /\ counted' = EmptyBag
    /\ groups' = EmptyBag
    /\ mapped' = EmptyBag

Init ==
    /\ text_lines \in Corpora
    /\ pc = "flat_map"
    /\ todo = 1..Len(text_lines)
    /\ pending = EmptyBag
    /\ partials = <<>>
    /\ counted = EmptyBag
    /\ groups = EmptyBag
    /\ mapped = EmptyBag
    /\ results = {}
    /\ prev_results = {}
    /\ reran = FALSE
    /\ ExtractIdle
    /\ MergeIdle

\* flat_map(extract_bigrams) on one row
FlatMapRow(i) ==
    /\ pc = "flat_map"
    /\ i \in todo
    /\ LET out == extract_bigrams(from_items(text_lines)[i])
       IN  /\ ~out.raised
           /\ pending' = pending (+) SeqToBag(out.rows)
    /\ todo' = todo \ {i}
    /\ UNCHANGED <<text_lines, pc, partials, counted, groups, mapped,
                   results, prev_results, reran>>
    /\ UNCHANGED <<extractVars, mergeVars>>

\* extract_bigrams raises on one row: the exception leaves take_all and main
FlatMapRaise(i) ==
    /\ pc = "flat_map"
    /\ i \in todo
    /\ extract_bigrams(from_items(text_lines)[i]).raised
    /\ pc' = "aborted"
    /\ UNCHANGED <<text_lines, todo, pending, partials, counted, groups, mapped,
                   results, prev_results, reran>>
    /\ UNCHANGED <<extractVars, mergeVars>>

\* all rows are mapped: groupby("bigram") takes the records
FlatMapDone ==
    /\ pc = "flat_map"
    /\ todo = {}
    /\ pc' = "groupby_bigram"
    /\ partials' = FreshShards
    /\ UNCHANGED <<text_lines, todo, pending, counted, groups, mapped,
                   results, prev_results, reran>>
    /\ UNCHANGED <<extractVars, mergeVars>>

\* a row goes to a shard in use, or to a new one, and is accumulated there
Accumulate(row, s) ==
    /\ pc \in {"groupby_bigram", "groupby_count"}
    /\ BagIn(row, pending)
    /\ s \in 1..NumShards
    /\ s <= Len(partials) + 1
    /\ partials' =
          IF s <= Len(partials)
          THEN [partials EXCEPT ![s] =
                   AccumulateInto(AggOf(pc), partials[s], row[KeyOf(pc)], row)]
          ELSE Append(partials,
                      AccumulateInto(AggOf(pc), <<>>, row[KeyOf(pc)], row))
    /\ pending' = pending (-) SetToBag({row})
    /\ UNCHANGED <<text_lines, pc, todo, counted, groups, mapped,
                   results, prev_results, reran>>
    /\ UNCHANGED <<extractVars, mergeVars>>

\* two partial states are merged, partials[i] on the left
Merge(i, j) ==
    /\ pc \in {"groupby_bigram", "groupby_count"}
    /\ IsEmptyBag(pending)
    /\ i \in 1..Len(partials)
    /\ j \in 1..Len(partials)
    /\ i # j
    /\ partials' = RemoveAndPut(partials, i, j,
                                MergeParts(AggOf(pc), partials[i], partials[j]))
    /\ UNCHANGED <<text_lines, pc, todo, pending, counted, groups, mapped,
                   results, prev_results, reran>>
    /\ UNCHANGED <<extractVars, mergeVars>>

\* groupby("bigram").aggregate(Sum("count", alias_name="count")) finishes
FinalizeBigram ==
    /\ pc = "groupby_bigram"
    /\ IsEmptyBag(pending)
    /\ Len(partials) <= 1
    /\ LET out == SetToBag({ [bigram |-> k,
                              count |-> AggFinalize("Sum", MergedPart(partials)[k])] :
                             k \in DOMAIN MergedPart(partials) })
       IN  /\ counted' = out
           /\ pending' = out
    /\ partials' = FreshShards
    /\ pc' = "groupby_count"
    /\ UNCHANGED <<text_lines, todo, groups, mapped, results, prev_results, reran>>
    /\ UNCHANGED <<extractVars, mergeVars>>

\* groupby("count").aggregate(make_list_aggregator(...)) finishes
FinalizeCount ==
    /\ pc = "groupby_count"
    /\ IsEmptyBag(pending)
    /\ Len(partials) <= 1
    /\ LET out == SetToBag({ [count |-> k,
                              bigrams |-> AggFinalize("CollectList", MergedPart(partials)[k])] :
                             k \in DOMAIN MergedPart(partials) })
       IN  /\ groups' = out
           /\ pending' = out
    /\ partials' = <<>>
    /\ pc' = "map"
    /\ UNCHANGED <<text_lines, todo, counted, mapped, results, prev_results, reran>>
    /\ UNCHANGED <<extractVars, mergeVars>>

\* the final map on one row
MapRow(row) ==
    /\ pc = "map"
    /\ BagIn(row, pending)
    /\ mapped' = mapped (+) SetToBag({ProjectRow(row)})
    /\ pending' = pending (-) SetToBag({row})
    /\ UNCHANGED <<text_lines, pc, todo, partials, counted, groups,
                   results, prev_results, reran>>
    /\ UNCHANGED <<extractVars, mergeVars>>

\* results = ds.take_all()
TakeAll ==
    /\ pc = "map"
    /\ IsEmptyBag(pending)
    /\ results' = {mapped}
    /\ pc' = "done"
    /\ UNCHANGED <<text_lines, todo, pending, partials, counted, groups, mapped,
                   prev_results, reran>>
    /\ UNCHANGED <<extractVars, mergeVars>>

\* the script is run again on the same corpus
Rerun ==
    /\ pc \in {"done", "aborted"}
    /\ reran' = TRUE
    /\ prev_results' = results
    /\ results' = {}
    /\ StartRun(text_lines)
    /\ UNCHANGED <<extractVars, mergeVars>>

Next ==
    \/ \E i \in 1..MaxLines : FlatMapRow(i)
    \/ \E i \in 1..MaxLines : FlatMapRaise(i)
    \/ FlatMapDone
    \/ \E row \in BagToSet(pending), s \in 1..NumShards : Accumulate(row, s)
    \/ \E i, j \in 1..NumShards : Merge(i, j)
    \/ FinalizeBigram
    \/ FinalizeCount
    \/ \E row \in BagToSet(pending) : MapRow(row)
    \/ TakeAll
    \/ Rerun

Spec == Init /\ [][Next]_vars

----------------------------------------------------------------------------
(* extract_bigrams applied to one item *)

PipeIdle ==
    /\ text_lines = <<>>
    /\ pc = "idle"
    /\ todo = {}
    /\ pending = EmptyBag
    /\ partials = <<>>
    /\ counted = EmptyBag
    /\ groups = EmptyBag
    /\ mapped = EmptyBag
    /\ results = {}
    /\ prev_results = {}
    /\ reran = FALSE

StringsUpTo(n) == UNION { [1..k -> Chars] : k \in 0..n }

InitExtract ==
    /\ x_item \in { [item |-> l] :
                    l \in { Str(cs) : cs \in StringsUpTo(MaxLineLen) } \cup {NotAStr} }
    /\ x_out = <<>>
    /\ x_pc = "call"
    /\ PipeIdle
    /\ MergeIdle

\* the generator is consumed to its end
ExtractReturn ==
    /\ x_pc = "call"
    /\ ~extract_bigrams(x_item).raised
    /\ x_out' = extract_bigrams(x_item).rows
    /\ x_pc' = "returned"
    /\ UNCHANGED <<x_item, pipeVars, mergeVars>>

\* the generator raises before it yields anything
ExtractRaise ==
    /\ x_pc = "call"
    /\ extract_bigrams(x_item).raised
    /\ x_pc' = "raised"
    /\ UNCHANGED <<x_item, x_out, pipeVars, mergeVars>>

NextExtract == ExtractReturn \/ ExtractRaise

SpecExtract == InitExtract /\ [][NextExtract]_vars

----------------------------------------------------------------------------
(* The aggregators' merge applied to partial accumulators *)

\* the values a list accumulator collects
AccElems == { fmt_bigram(<<"a">>, <<"b">>), fmt_bigram(<<"b">>, <<"a">>) }

Accumulators(kind) ==
    IF kind = "Sum"
    THEN 0..MaxAccSum
    ELSE UNION { [1..k -> AccElems] : k \in 0..MaxAccLen }

InitMerge ==
    /\ m_kind \in {"Sum", "CollectList"}
    /\ m_acc \in [1..3 -> Accumulators(m_kind)]
    /\ m_res = <<>>
    /\ PipeIdle
    /\ ExtractIdle

\* merge(a, b) and merge(b, a)
MergePair ==
    /\ Len(m_res) = 0
    /\ m_res' = << AggMerge(m_kind, m_acc[1], m_acc[2]),
                   AggMerge(m_kind, m_acc[2], m_acc[1]) >>
    /\ UNCHANGED <<m_kind, m_acc, pipeVars, extractVars>>

\* merge(merge(a, b), c) and merge(a, merge(b, c))
MergeTriple ==
    /\ Len(m_res) = 2
    /\ m_res' = m_res \o
                << AggMerge(m_kind, AggMerge(m_kind, m_acc[1], m_acc[2]), m_acc[3]),
                   AggMerge(m_kind, m_acc[1], AggMerge(m_kind, m_acc[2], m_acc[3])) >>
    /\ UNCHANGED <<m_kind, m_acc, pipeVars, extractVars>>

NextMerge == MergePair \/ MergeTriple

SpecMerge == InitMerge /\ [][NextMerge]_vars

----------------------------------------------------------------------------
(* What the corpus contains, stated on its tokens *)

Tokens(line) == re_findall_w(str_lower(line.chars))

WellFormed == \A l \in 1..Len(text_lines) : text_lines[l].isStr

\* <<l, i>>: tokens i and i+1 of line l are adjacent
PairPositions ==
    UNION { { <<l, i>> : i \in 1..(Len(Tokens(text_lines[l])) - 1) } :
            l \in 1..Len(text_lines) }

PairAt(p) ==
    LET t == Tokens(text_lines[p[1]])
    IN  t[p[2]] \o <<" ">> \o t[p[2] + 1]

DistinctBigrams == { PairAt(p) : p \in PairPositions }

Occurrences(b) == Cardinality({ p \in PairPositions : PairAt(p) = b })

Histogram ==
    { [count |-> c,
       num_bigrams |-> Cardinality({ b \in DistinctBigrams : Occurrences(b) = c })] :
      c \in { Occurrences(b) : b \in DistinctBigrams } }

Max(a, b) == IF a >= b THEN a ELSE b

RECURSIVE PairsInLines(_)
PairsInLines(l) ==
    IF l > Len(text_lines) THEN 0
    ELSE Max(0, Len(Tokens(text_lines[l])) - 1) + PairsInLines(l + 1)

RECURSIVE SumOver(_, _)
SumOver(B, S) ==
    IF S = {} THEN 0
    ELSE LET r == CHOOSE x \in S : TRUE
         IN  CopiesIn(r, B) * r.count + SumOver(B, S \ {r})

\* sum of the count field over the rows of a bag
SumOfCounts(B) == SumOver(B, BagToSet(B))

RECURSIVE WeightedOver(_, _)
WeightedOver(B, S) ==
    IF S = {} THEN 0
    ELSE LET r == CHOOSE x \in S : TRUE
         IN  CopiesIn(r, B) * r.num_bigrams * r.count + WeightedOver(B, S \ {r})

\* sum of num_bigrams * count over the rows of a bag
SumOfProducts(B) == WeightedOver(B, BagToSet(B))

AfterCounting == pc \in {"groupby_count", "map", "done"}

AfterGrouping == pc \in {"map", "done"}

----------------------------------------------------------------------------
(* A single sequential pass: one shard, rows in order, no merge *)

RECURSIVE SeqPass(_, _, _, _)
SeqPass(agg, key, rows, part) ==
    IF rows = <<>> THEN part
    ELSE SeqPass(agg, key, Tail(rows),
                 AccumulateInto(agg, part, Head(rows)[key], Head(rows)))

RECURSIVE RecordsFrom(_)
RecordsFrom(l) ==
    IF l > Len(text_lines) THEN <<>>
    ELSE extract_bigrams(from_items(text_lines)[l]).rows \o RecordsFrom(l + 1)

RECURSIVE SetToSeq(_)
SetToSeq(S) ==
    IF S = {} THEN <<>>
    ELSE LET x == CHOOSE y \in S : TRUE IN <<x>> \o SetToSeq(S \ {x})

SeqCounted ==
    LET p == SeqPass("Sum", "bigram", RecordsFrom(1), <<>>)
    IN  SetToBag({ [bigram |-> k, count |-> AggFinalize("Sum", p[k])] : k \in DOMAIN p })

SeqGroups ==
    LET p == SeqPass("CollectList", "count", SetToSeq(BagToSet(SeqCounted)), <<>>)
    IN  SetToBag({ [count |-> k, bigrams |-> AggFinalize("CollectList", p[k])] :
                   k \in DOMAIN p })

SeqOutput == SetToBag({ ProjectRow(g) : g \in BagToSet(SeqGroups) })

\* a bag of HistogramGroups with every bigrams list read as a bag of members
Members(G) ==
    [ m \in { [count |-> g.count, members |-> SeqToBag(g.bigrams)] : g \in BagToSet(G) }
      |-> BagCardinality([ g \in { h \in BagToSet(G) :
                                     /\ h.count = m.count
                                     /\ SeqToBag(h.bigrams) = m.members }
                           |-> CopiesIn(g, G) ]) ]

----------------------------------------------------------------------------
(* Claims *)

\* C1: when the run is done, the output holds exactly one record
\* {count: c, num_bigrams: k} for each c that is the total occurrence count of
\* some bigram, k being the number of distinct bigrams occurring c times in
\* the whole corpus, and no other record.
C1_HistogramOutput == pc = "done" => results = {SetToBag(Histogram)}

C1_Witness ==
    /\ pc = "done"
    /\ Cardinality(Histogram) >= 2
    /\ \E r \in Histogram : r.num_bigrams >= 2
    /\ results = {SetToBag(Histogram)}

\* C2: the counts of the CountedBigram records add up to the number of
\* adjacent token pairs of the corpus, the sum over the lines of
\* max(0, tokens in the line - 1).
C2_CountsSumToPairs == AfterCounting => SumOfCounts(counted) = PairsInLines(1)

C2_Witness ==
    /\ AfterCounting
    /\ PairsInLines(1) >= 3
    /\ \E l \in 1..Len(text_lines) : Len(Tokens(text_lines[l])) < 2
    /\ \E r \in BagToSet(counted) : r.count >= 2

\* C3 as stated: the sum of num_bigrams * count over the output records is
\* the number of distinct bigram strings of the corpus.
C3_ProductsSumToDistinct ==
    pc = "done" => SumOfProducts(mapped) = Cardinality(DistinctBigrams)

\* C3 amended: the sum of num_bigrams * count over the output records is the
\* number of bigram occurrences (adjacent token pairs) of the corpus.
C3_ProductsSumToPairs ==
    pc = "done" => /\ results = {mapped}
                   /\ SumOfProducts(mapped) = PairsInLines(1)

C3_Witness ==
    /\ pc = "done"
    /\ SumOfProducts(mapped) = PairsInLines(1)
    /\ Cardinality(DistinctBigrams) >= 2
    /\ PairsInLines(1) > Cardinality(DistinctBigrams)

C6_ExactlyOneGroup ==
    /\ AfterCounting =>
          \A r \in BagToSet(counted) :
              /\ CopiesIn(r, counted) = 1
              /\ \A q \in BagToSet(counted) : q.bigram = r.bigram => q = r
    /\ AfterGrouping =>
          /\ \A g \in BagToSet(groups) :
                 /\ CopiesIn(g, groups) = 1
                 /\ \A h \in BagToSet(groups) : h.count = g.count => h = g
          /\ \A r \in BagToSet(counted) :
                 /\ \E g \in BagToSet(groups) :
                        /\ g.count = r.count
                        /\ Cardinality({ i \in 1..Len(g.bigrams) :
                                           g.bigrams[i] = r.bigram }) = 1
                 /\ \A g \in BagToSet(groups) :
                        g.count # r.count =>
                            \A i \in 1..Len(g.bigrams) : g.bigrams[i] # r.bigram

C6_Witness ==
    /\ AfterGrouping
    /\ Cardinality(BagToSet(groups)) >= 2
    /\ \E g \in BagToSet(groups) : Len(g.bigrams) >= 2

\* C8: a corpus without lines, or whose lines all have fewer than 2 tokens,
\* never aborts the run, the run can always go on until it is done, and the
\* completed run returns an empty collection; no output record has count 0.
Degenerate ==
    \A l \in 1..Len(text_lines) :
        text_lines[l].isStr /\ Len(Tokens(text_lines[l])) < 2

C8_EmptyOutput ==
    /\ Degenerate => /\ pc # "aborted"
                     /\ pc # "done" => ENABLED Next
                     /\ pc = "done" => results = {EmptyBag}
    /\ \A r \in BagToSet(mapped) : r.count # 0

C8_Witness ==
    /\ Degenerate
    /\ Len(text_lines) >= 2
    /\ \E l \in 1..Len(text_lines) : Len(Tokens(text_lines[l])) = 1
    /\ pc = "done"
    /\ results = {EmptyBag}

C8_WitnessNoLines ==
    /\ text_lines = <<>>
    /\ pc = "done"
    /\ results = {EmptyBag}

\* C9: a second run on the same corpus returns the same collection of
\* {count, num_bigrams} records as the first, whatever shards and merge
\* orders the two runs used.
C9_SameOutputTwice == (pc = "done" /\ reran) => results = prev_results

C9_Witness ==
    /\ pc = "done"
    /\ reran
    /\ prev_results = results
    /\ \E r \in BagToSet(mapped) : r.num_bigrams >= 2

\* C10: with an item that is not a string in the corpus the run never gets
\* past flat_map, the item is never skipped, and no result is returned; a
\* result is only ever the full result of a completed run; a run that still
\* holds such an item unmapped can always take a step, and every step of a
\* run brings it closer to its end, done or aborted.
C10_Safe ==
    /\ ~WellFormed =>
          /\ pc \in {"flat_map", "aborted"}
          /\ \A l \in 1..Len(text_lines) : ~text_lines[l].isStr => l \in todo
    /\ pc = "aborted" => ~WellFormed /\ results = {}
    /\ results # {} => pc = "done" /\ results = {SetToBag(Histogram)}
    /\ pc = "done" => results # {}
    /\ (~WellFormed /\ pc = "flat_map") => ENABLED Next

Rank(p) ==
    CASE p = "flat_map" -> 4
      [] p = "groupby_bigram" -> 3
      [] p = "groupby_count" -> 2
      [] p = "map" -> 1
      [] OTHER -> 0

Measure == <<Rank(pc), Cardinality(todo), BagCardinality(pending), Len(partials)>>

LexLess(a, b) ==
    \E k \in 1..Len(a) : a[k] < b[k] /\ \A j \in 1..(k - 1) : a[j] = b[j]

RunAdvances ==
    \/ reran' = reran /\ LexLess(Measure', Measure)
    \/ reran' /\ pc \in {"done", "aborted"} /\ pc' = "flat_map"

----------------------------------------------------------------------------
(* Claims on extract_bigrams (SpecExtract) *)

\* C7: for a line with tokens t0..t(n-1), extract_bigrams yields n-1 records
\* when n >= 2, the i-th being {bigram: t_i + " " + t_(i+1), count: 1} in
\* left-to-right order, repeated pairs included, and nothing when n < 2.
C7_ExtractBigrams ==
    /\ x_pc = "returned" =>
          LET t == Tokens(x_item.item)
              n == Len(t)
          IN  /\ x_item.item.isStr
              /\ Len(x_out) = (IF n >= 2 THEN n - 1 ELSE 0)
              /\ \A i \in 1..Len(x_out) :
                     x_out[i] = [bigram |-> t[i] \o <<" ">> \o t[i + 1], count |-> 1]
    /\ x_pc = "raised" => ~x_item.item.isStr

C7_Witness ==
    /\ x_pc = "returned"
    /\ Len(x_out) = 2
    /\ x_out[1] = x_out[2]

----------------------------------------------------------------------------
(* Claims on merge (SpecMerge) *)

\* C5 as stated: for both aggregators merge(a, b) = merge(b, a) and
\* merge(merge(a, b), c) = merge(a, merge(b, c)).
C5_MergeCommutativeAssociative ==
    /\ Len(m_res) >= 2 => m_res[1] = m_res[2]
    /\ Len(m_res) = 4 => m_res[3] = m_res[4]

\* C5 amended: both merges are associative; the merge of Sum is commutative;
\* the merge of the list aggregator is commutative up to the order of the
\* elements: merge(a, b) and merge(b, a) hold the same elements the same
\* number of times.
C5_MergeAssociativeCommutativeUpToOrder ==
    /\ (Len(m_res) >= 2 /\ m_kind = "Sum") => m_res[1] = m_res[2]
    /\ (Len(m_res) >= 2 /\ m_kind = "CollectList") =>
          SeqToBag(m_res[1]) = SeqToBag(m_res[2])
    /\ Len(m_res) = 4 => m_res[3] = m_res[4]

C5_Witness ==
    /\ m_kind = "CollectList"
    /\ Len(m_res) = 4
    /\ m_res[1] # m_res[2]
    /\ SeqToBag(m_res[1]) = SeqToBag(m_res[2])
    /\ m_res[3] = m_res[4]

====
